---- MODULE Spec2Model ----
(***************************************************************************)
(* Generic sequential containers of the repository:                        *)
(*   - the std::stack adapter over vector / list / deque, as used in       *)
(*     "C++/9. Standard Template Library (STL)/13. Stack/main.cpp";        *)
(*   - the hand-written doubly linked List<T> of                           *)
(*     "ProgrammingBasics/25-Generics-master/C++/2-list.cpp".              *)
(***************************************************************************)
EXTENDS Integers, Sequences, FiniteSets, TLC

VARIABLES s1, s2, s3, status, hist,
          head, tail, items, pushed, pc, current, out, shown,
          destroyed, deleted,
          mem, mpc, resolved,
          objs, cells, run, cout

stackVars == <<s1, s2, s3, status, hist>>
listVars == <<head, tail, items, pushed, pc, current, out, shown,
              destroyed, deleted>>
weakVars == <<mem, mpc, resolved>>
shallowVars == <<objs, cells, run, cout>>
vars == <<s1, s2, s3, status, hist, head, tail, items, pushed, pc, current, out, shown,
          destroyed, deleted, mem, mpc, resolved, objs, cells, run, cout>>

\* the variables an action on one of the programs leaves alone
notStack == <<listVars, weakVars, shallowVars>>
notList == <<stackVars, weakVars, shallowVars>>
notWeak == <<stackVars, listVars, shallowVars>>
notShallow == <<stackVars, listVars, weakVars>>

(***************************************************************************)
(* Bounds of the model.                                                    *)
(***************************************************************************)
\* number of distinct element values pushed
NumValues == 2
\* number of calls made on the stacks in one run
MaxOps == 4
\* elements per storage block of the deque
DequeBuf == 2
\* number of nodes the List may allocate
MaxNodes == 3
\* number of complete List::display() passes recorded
MaxPasses == 2
\* number of handles a client may hold from resolving weak references
NumHandles == 2
\* number of weak references a client may hold besides B::a_ptr
NumObservers == 2
\* number of heap cells `new int` may hand out
NumCells == 2
\* number of delete calls followed on one cell
MaxDeletes == 3

Values == 1..NumValues

\* storage that holds no constructed element / a call that returns nothing
NoValue == 0

(***************************************************************************)
(* std::vector<int>: a contiguous buffer of capacity Len(buf) whose first  *)
(* `finish` slots are constructed.                                         *)
(***************************************************************************)
vector_init == [buf |-> <<>>, finish |-> 0]

vector_size(c) == c.finish

vector_empty(c) == c.finish = 0

vector_back(c) == c.buf[c.finish]

vector_push_back_nogrow(c, v) ==
    [buf |-> [i \in 1..Len(c.buf) |-> IF i = c.finish + 1 THEN v ELSE c.buf[i]],
     finish |-> IF c.finish < Len(c.buf) THEN c.finish + 1 ELSE c.finish]

vector_push_back(c, v) ==
    IF c.finish < Len(c.buf)
    THEN [c EXCEPT !.buf[c.finish + 1] = v, !.finish = @ + 1]
    ELSE LET cap == IF Len(c.buf) = 0 THEN 1 ELSE 2 * Len(c.buf)
         IN [buf |-> [i \in 1..cap |->
                        IF i <= c.finish THEN c.buf[i]
                        ELSE IF i = c.finish + 1 THEN v ELSE NoValue],
             finish |-> c.finish + 1]

vector_pop_back(c) == [c EXCEPT !.finish = @ - 1]

vector_set_back(c, v) == [c EXCEPT !.buf[c.finish] = v]

(***************************************************************************)
(* std::list<int>: a circular doubly linked chain of nodes around a        *)
(* sentinel, with an element count.                                        *)
(***************************************************************************)
Sentinel == 0

list_init ==
    [node |-> (Sentinel :> [next |-> Sentinel, prev |-> Sentinel, data |-> NoValue]),
     count |-> 0]

list_alloc(c) ==
    CHOOSE a \in 1..Cardinality(DOMAIN c.node) :
        /\ a \notin DOMAIN c.node
        /\ \A b \in 1..(a - 1) : b \in DOMAIN c.node

list_size(c) == c.count

list_empty(c) == c.node[Sentinel].next = Sentinel

list_back_front(c) == c.node[c.node[Sentinel].next].data

list_back(c) == c.node[c.node[Sentinel].prev].data

list_push_back(c, v) ==
    LET a == list_alloc(c)
        last == c.node[Sentinel].prev
        n1 == [x \in DOMAIN c.node \cup {a} |->
                 IF x = a THEN [next |-> Sentinel, prev |-> last, data |-> v]
                 ELSE c.node[x]]
        n2 == [n1 EXCEPT ![last].next = a]
        n3 == [n2 EXCEPT ![Sentinel].prev = a]
    IN [node |-> n3, count |-> c.count + 1]

list_pop_back_keepcount(c) ==
    LET last == c.node[Sentinel].prev
        before == c.node[last].prev
        n1 == [c.node EXCEPT ![before].next = Sentinel]
        n2 == [n1 EXCEPT ![Sentinel].prev = before]
    IN [node |-> [x \in DOMAIN n2 \ {last} |-> n2[x]], count |-> c.count]

list_pop_back(c) ==
    LET last == c.node[Sentinel].prev
        before == c.node[last].prev
        n1 == [c.node EXCEPT ![before].next = Sentinel]
        n2 == [n1 EXCEPT ![Sentinel].prev = before]
    IN [node |-> [x \in DOMAIN n2 \ {last} |-> n2[x]], count |-> c.count - 1]

list_set_back(c, v) == [c EXCEPT !.node[c.node[Sentinel].prev].data = v]

(***************************************************************************)
(* std::deque<int>: a map of fixed-size blocks; the first element sits at  *)
(* the start of the first block, `cur` is the offset of the finish cursor  *)
(* in the last block, which is always allocated.                           *)
(***************************************************************************)
deque_block == [i \in 1..DequeBuf |-> NoValue]

deque_init == [map |-> <<deque_block>>, cur |-> 0]

deque_size(c) == DequeBuf * (Len(c.map) - 1) + c.cur

deque_empty_cur(c) == c.cur = 0

deque_empty(c) == Len(c.map) = 1 /\ c.cur = 0

deque_back(c) ==
    IF c.cur > 0 THEN c.map[Len(c.map)][c.cur]
    ELSE c.map[Len(c.map) - 1][DequeBuf]

deque_push_back(c, v) ==
    LET m == [c.map EXCEPT ![Len(c.map)][c.cur + 1] = v]
    IN IF c.cur + 1 < DequeBuf
       THEN [map |-> m, cur |-> c.cur + 1]
       ELSE [map |-> Append(m, deque_block), cur |-> 0]

deque_pop_back_noaux(c) ==
    IF c.cur > 0 THEN [c EXCEPT !.cur = @ - 1]
    ELSE [map |-> SubSeq(c.map, 1, Len(c.map) - 1), cur |-> 0]

deque_pop_back(c) ==
    IF c.cur > 0 THEN [c EXCEPT !.cur = @ - 1]
    ELSE [map |-> SubSeq(c.map, 1, Len(c.map) - 1), cur |-> DequeBuf - 1]

deque_set_back(c, v) ==
    IF c.cur > 0 THEN [c EXCEPT !.map[Len(c.map)][c.cur] = v]
    ELSE [c EXCEPT !.map[Len(c.map) - 1][DequeBuf] = v]

(***************************************************************************)
(* std::stack<T, Container>: every call is forwarded to the back of the    *)
(* container c it holds.                                                   *)
(***************************************************************************)
Backings == {"vector", "list", "deque"}

stack_init(kind) ==
    [kind |-> kind,
     c |-> CASE kind = "vector" -> vector_init
             [] kind = "list" -> list_init
             [] kind = "deque" -> deque_init]

empty(s) ==
    CASE s.kind = "vector" -> vector_empty(s.c)
      [] s.kind = "list" -> list_empty(s.c)
      [] s.kind = "deque" -> deque_empty(s.c)

size(s) ==
    CASE s.kind = "vector" -> vector_size(s.c)
      [] s.kind = "list" -> list_size(s.c)
      [] s.kind = "deque" -> deque_size(s.c)

top(s) ==
    CASE s.kind = "vector" -> vector_back(s.c)
      [] s.kind = "list" -> list_back(s.c)
      [] s.kind = "deque" -> deque_back(s.c)

push(s, v) ==
    [s EXCEPT !.c = CASE s.kind = "vector" -> vector_push_back(s.c, v)
                      [] s.kind = "list" -> list_push_back(s.c, v)
                      [] s.kind = "deque" -> deque_push_back(s.c, v)]

pop(s) ==
    [s EXCEPT !.c = CASE s.kind = "vector" -> vector_pop_back(s.c)
                      [] s.kind = "list" -> list_pop_back(s.c)
                      [] s.kind = "deque" -> deque_pop_back(s.c)]

\* s.top() = v: top() returns a reference to the back element, written through
top_assign(s, v) ==
    [s EXCEPT !.c = CASE s.kind = "vector" -> vector_set_back(s.c, v)
                      [] s.kind = "list" -> list_set_back(s.c, v)
                      [] s.kind = "deque" -> deque_set_back(s.c, v)]

(***************************************************************************)
(* The calls main() and display() make on a stack.  Each yields the stack  *)
(* after the call, what the call produced, and whether the call had        *)
(* undefined behaviour (pop() or top() of an empty stack: std::stack       *)
(* checks nothing and throws nothing).                                     *)
(***************************************************************************)
Result(s, ret, ub) == [s |-> s, ret |-> ret, ub |-> ub]

call_push(s, v) == Result(push(s, v), NoValue, FALSE)

\* T elem = s.top(); s.pop();
call_pop(s) ==
    IF empty(s) THEN Result(s, NoValue, TRUE)
    ELSE Result(pop(s), top(s), FALSE)

call_top_popping(s) ==
    IF empty(s) THEN Result(s, NoValue, TRUE)
    ELSE Result(pop(s), top(s), FALSE)

call_top(s) ==
    IF empty(s) THEN Result(s, NoValue, TRUE)
    ELSE Result(s, top(s), FALSE)

call_top_assign(s, v) ==
    IF empty(s) THEN Result(s, NoValue, TRUE)
    ELSE Result(top_assign(s, v), NoValue, FALSE)

call_size(s) == Result(s, size(s), FALSE)

RECURSIVE display_loop(_, _)
display_loop(s, printed) ==
    IF ~empty(s)
    THEN display_loop(pop(s), Append(printed, top(s)))
    ELSE Result(s, printed, FALSE)

display_by_reference(s) == display_loop(s, <<>>)

\* the parameter is a copy of the caller's stack; the copy is drained
display(s) == Result(s, display_loop(s, <<>>).ret, FALSE)

RECURSIVE drain_loop(_, _)
drain_loop(s, n) ==
    IF ~empty(s) THEN drain_loop(pop(s), n + 1)
    ELSE Result(s, n, FALSE)

drain_unguarded(s) ==
    IF empty(s) THEN Result(s, NoValue, TRUE)
    ELSE drain_loop(pop(s), 1)

\* while (!s.empty()) s.pop();   ret counts the pops made
drain(s) == drain_loop(s, 0)

(***************************************************************************)
(* The three stacks main() declares, driven by the same calls.             *)
(***************************************************************************)
UBOutcomes == {"abort", "undefined"}

Running ==
    /\ \A k \in Backings : status[k] = "ok"
    /\ Len(hist) < MaxOps

Apply(op, arg, r1, r2, r3) ==
    /\ s1' = r1.s
    /\ s2' = r2.s
    /\ s3' = r3.s
    /\ \E o1, o2, o3 \in UBOutcomes :
         status' = [vector |-> IF r1.ub THEN o1 ELSE "ok",
                    list |-> IF r2.ub THEN o2 ELSE "ok",
                    deque |-> IF r3.ub THEN o3 ELSE "ok"]
    /\ hist' = Append(hist, [op |-> op, arg |-> arg,
                             ret |-> <<r1.ret, r2.ret, r3.ret>>])
    /\ UNCHANGED notStack

StackPush(v) ==
    /\ Running
    /\ Apply("push", v, call_push(s1, v), call_push(s2, v), call_push(s3, v))

StackPop ==
    /\ Running
    /\ Apply("pop", NoValue, call_pop(s1), call_pop(s2), call_pop(s3))

StackTop ==
    /\ Running
    /\ Apply("top", NoValue, call_top(s1), call_top(s2), call_top(s3))

StackTopAssign(v) ==
    /\ Running
    /\ Apply("assign", v, call_top_assign(s1, v), call_top_assign(s2, v),
             call_top_assign(s3, v))

StackSize ==
    /\ Running
    /\ Apply("size", NoValue, call_size(s1), call_size(s2), call_size(s3))

\* main() passes s, a std::stack<int> over the default deque, to display();
\* the same function body is run here on each of the three stacks
StackDisplay ==
    /\ Running
    /\ Apply("display", NoValue, display(s1), display(s2), display(s3))

StackDrain ==
    /\ Running
    /\ Apply("drain", NoValue, drain(s1), drain(s2), drain(s3))

(***************************************************************************)
(* List<T> of 2-list.cpp: head and tail pointers into a heap of ListItem   *)
(* records.  `new ListItem<T>` default-initialises the record, so its next *)
(* and prev pointers start with indeterminate values: the null pointer,    *)
(* the address of any item, or an address that is no item at all.          *)
(***************************************************************************)
NULL == 0

Wild == -1

Addresses == 1..MaxNodes

Pointers == {NULL, Wild} \cup Addresses

List_new == [head |-> NULL, tail |-> NULL, items |-> <<>>]

List_push_sethead(l, value, gnext, gprev) ==
    LET item == Cardinality(DOMAIN l.items) + 1
        fresh == [a \in DOMAIN l.items \cup {item} |->
                    IF a = item
                    THEN [next |-> gnext, prev |-> gprev, data |-> value]
                    ELSE l.items[a]]
    IN IF l.head = NULL
       THEN [head |-> item, tail |-> item, items |-> fresh]
       ELSE [head |-> item, tail |-> item,
             items |-> [fresh EXCEPT ![item].prev = l.tail,
                                     ![l.tail].next = item]]

List_push_noprev(l, value, gnext, gprev) ==
    LET item == Cardinality(DOMAIN l.items) + 1
        fresh == [a \in DOMAIN l.items \cup {item} |->
                    IF a = item
                    THEN [next |-> gnext, prev |-> gprev, data |-> value]
                    ELSE l.items[a]]
    IN IF l.head = NULL
       THEN [head |-> item, tail |-> item, items |-> fresh]
       ELSE [head |-> l.head, tail |-> item,
             items |-> [fresh EXCEPT ![l.tail].next = item]]

\* gnext, gprev: what the fresh item's next and prev happen to hold
List_push(l, value, gnext, gprev) ==
    LET item == Cardinality(DOMAIN l.items) + 1
        fresh == [a \in DOMAIN l.items \cup {item} |->
                    IF a = item
                    THEN [next |-> gnext, prev |-> gprev, data |-> value]
                    ELSE l.items[a]]
    IN IF l.head = NULL
       THEN [head |-> item, tail |-> item, items |-> fresh]
       ELSE [head |-> l.head, tail |-> item,
             items |-> [fresh EXCEPT ![item].prev = l.tail,
                                     ![l.tail].next = item]]

ListPush(value) ==
    /\ pc = "idle"
    /\ ~destroyed
    /\ Len(pushed) < MaxNodes
    /\ \E gnext, gprev \in Pointers :
         LET l == List_push([head |-> head, tail |-> tail, items |-> items],
                            value, gnext, gprev)
         IN /\ head' = l.head
            /\ tail' = l.tail
            /\ items' = l.items
    /\ pushed' = Append(pushed, value)
    /\ UNCHANGED <<pc, current, out, shown, destroyed, deleted>>
    /\ UNCHANGED notList

\* ListItem<T>* current = head;
ListDisplayBegin ==
    /\ pc = "idle"
    /\ ~destroyed
    /\ Len(shown) < MaxPasses
    /\ pc' = "display"
    /\ current' = head
    /\ out' = <<>>
    /\ UNCHANGED <<head, tail, items, pushed, shown, destroyed, deleted>>
    /\ UNCHANGED notList

\* one test of the loop condition and, when it holds, one turn of the loop.
\* Reading through a pointer that addresses no item ends the run; a walk
\* that has printed more lines than there are items is followed no further.
ListDisplayStep ==
    /\ pc = "display"
    /\ IF current = NULL
       THEN /\ pc' = "idle"
            /\ shown' = Append(shown, [out |-> out, of |-> pushed])
            /\ UNCHANGED <<current, out>>
       ELSE IF current \notin DOMAIN items
       THEN /\ pc' = "fault"
            /\ UNCHANGED <<current, out, shown>>
       ELSE IF Len(out) > Cardinality(DOMAIN items)
       THEN /\ pc' = "runaway"
            /\ UNCHANGED <<current, out, shown>>
       ELSE /\ out' = Append(out, items[current].data)
            /\ current' = items[current].next
            /\ UNCHANGED <<pc, shown>>
    /\ UNCHANGED <<head, tail, items, pushed, destroyed, deleted>>
    /\ UNCHANGED notList

\* what the destructor of a List adds to the delete calls made so far: the
\* class declares no destructor, and the implicit one deletes no item
List_destructor(l, del) == del

\* `list` goes out of scope at the end of main()
ListDestroy ==
    /\ pc = "idle"
    /\ ~destroyed
    /\ destroyed' = TRUE
    /\ deleted' = List_destructor([head |-> head, tail |-> tail, items |-> items],
                                  deleted)
    /\ UNCHANGED <<head, tail, items, pushed, pc, current, out, shown>>
    /\ UNCHANGED notList

(***************************************************************************)
(* WeakPointers/main.cpp: the objects A and B, the shared_ptr and weak_ptr *)
(* variables that refer to them, and one control block per object with its *)
(* strong count (use), its weak count, and the object's life.              *)
(*   mem.sp      the shared_ptr variables: main's a and b, and A::b_ptr    *)
(*   mem.a_ptr   the weak_ptr member B::a_ptr                              *)
(*   mem.hd      handles a client got by resolving a weak reference        *)
(*   mem.ob      weak references a client holds                            *)
(*   mem.cb      the control blocks                                        *)
(***************************************************************************)
Objects == {"A", "B"}

None == "none"

Ref == Objects \cup {None}

Handles == 1..NumHandles

Observers == 1..NumObservers

mem_init ==
    [sp |-> [x \in {"a", "b", "b_ptr"} |-> None],
     a_ptr |-> None,
     hd |-> [h \in Handles |-> None],
     ob |-> [i \in Observers |-> None],
     cb |-> [o \in Objects |-> [use |-> 0, weak |-> 0, obj |-> "none", dtor |-> 0]]]

\* shared_ptr<T> x = make_shared<T>();
make_shared(m, x, o) ==
    [m EXCEPT !.sp[x] = o,
              !.cb[o] = [use |-> 1, weak |-> 0, obj |-> "alive", dtor |-> 0]]

RECURSIVE shared_release(_, _, _)
RECURSIVE destroy_members(_, _)

\* a weak_ptr goes away: the weak count of its control block drops
weak_release(cb, o) ==
    IF o = None THEN cb ELSE [cb EXCEPT ![o].weak = @ - 1]

\* the object's destructor body has run; its members are destroyed next
destroy(m, o) ==
    destroy_members([m EXCEPT !.cb[o].obj = "destroyed", !.cb[o].dtor = @ + 1], o)

destroy_members_leak(m, o) == m

\* A holds b_ptr, B holds a_ptr
destroy_members(m, o) ==
    IF o = "A"
    THEN shared_release(m, "sp", "b_ptr")
    ELSE [m EXCEPT !.cb = weak_release(m.cb, m.a_ptr), !.a_ptr = None]

shared_release_nodec(m, kind, x) ==
    IF m[kind][x] = None THEN m ELSE [m EXCEPT ![kind][x] = None]

\* a shared_ptr goes away: the strong count drops, and the object is
\* destroyed when it reaches zero
shared_release(m, kind, x) ==
    LET o == m[kind][x]
    IN IF o = None THEN m
       ELSE LET m1 == [m EXCEPT ![kind][x] = None, !.cb[o].use = @ - 1]
            IN IF m1.cb[o].use = 0 THEN destroy(m1, o) ELSE m1

\* b_ptr = b;
set_B(m, o) ==
    LET m1 == [m EXCEPT !.cb[o].use = @ + 1]
        m2 == shared_release(m1, "sp", "b_ptr")
    IN [m2 EXCEPT !.sp["b_ptr"] = o]

set_A_strong(m, o) ==
    [m EXCEPT !.cb = [weak_release(m.cb, m.a_ptr) EXCEPT ![o].weak = @ + 1,
                                                         ![o].use = @ + 1],
              !.a_ptr = o]

\* a_ptr = a;
set_A(m, o) ==
    [m EXCEPT !.cb = [weak_release(m.cb, m.a_ptr) EXCEPT ![o].weak = @ + 1],
              !.a_ptr = o]

\* resolve: what locking a weak reference to o yields
weak_lock(m, o) ==
    IF o # None /\ m.cb[o].use > 0 THEN o ELSE None

MainMakeA ==
    /\ mpc = "L43"
    /\ mem' = make_shared(mem, "a", "A")
    /\ mpc' = "L44"
    /\ UNCHANGED resolved
    /\ UNCHANGED notWeak

MainMakeB ==
    /\ mpc = "L44"
    /\ mem' = make_shared(mem, "b", "B")
    /\ mpc' = "L45"
    /\ UNCHANGED resolved
    /\ UNCHANGED notWeak

MainSetB ==
    /\ mpc = "L45"
    /\ mem' = set_B(mem, mem.sp["b"])
    /\ mpc' = "L46"
    /\ UNCHANGED resolved
    /\ UNCHANGED notWeak

MainSetA ==
    /\ mpc = "L46"
    /\ mem' = set_A(mem, mem.sp["a"])
    /\ mpc' = "L48"
    /\ UNCHANGED resolved
    /\ UNCHANGED notWeak

\* return 0: the locals are destroyed in reverse order, b before a
MainReturn ==
    /\ mpc = "L48"
    /\ mem' = shared_release(shared_release(mem, "sp", "b"), "sp", "a")
    /\ mpc' = "done"
    /\ UNCHANGED resolved
    /\ UNCHANGED notWeak

\* downgrade: a weak reference made from main's a or b
Downgrade(i, x) ==
    /\ mem.ob[i] = None
    /\ mem.sp[x] # None
    /\ mem' = [mem EXCEPT !.ob[i] = mem.sp[x], !.cb[mem.sp[x]].weak = @ + 1]
    /\ UNCHANGED <<mpc, resolved>>
    /\ UNCHANGED notWeak

\* a weak reference copied from another one, expired or not
ObserverCopy(i, j) ==
    /\ mem.ob[i] = None
    /\ mem.ob[j] # None
    /\ mem' = [mem EXCEPT !.ob[i] = mem.ob[j], !.cb[mem.ob[j]].weak = @ + 1]
    /\ UNCHANGED <<mpc, resolved>>
    /\ UNCHANGED notWeak

ObserverDrop(i) ==
    /\ mem.ob[i] # None
    /\ mem' = [mem EXCEPT !.ob[i] = None, !.cb = weak_release(mem.cb, mem.ob[i])]
    /\ UNCHANGED <<mpc, resolved>>
    /\ UNCHANGED notWeak

\* resolve of weak reference w into the free handle h
Resolve(h, w) ==
    /\ mem.hd[h] = None
    /\ w # None
    /\ LET r == weak_lock(mem, w)
       IN /\ mem' = IF r = None THEN mem
                    ELSE [mem EXCEPT !.hd[h] = r, !.cb[r].use = @ + 1]
          /\ resolved' = [target |-> w, ret |-> r]
    /\ UNCHANGED mpc
    /\ UNCHANGED notWeak

\* a client resolves one of its weak references
ResolveObserver(h, i) == Resolve(h, mem.ob[i])

\* B, while it lives, resolves its a_ptr
ResolveMember(h) ==
    /\ mem.cb["B"].obj = "alive"
    /\ Resolve(h, mem.a_ptr)

HandleDrop(h) ==
    /\ mem.hd[h] # None
    /\ mem' = shared_release(mem, "hd", h)
    /\ UNCHANGED <<mpc, resolved>>
    /\ UNCHANGED notWeak

WeakIdle ==
    /\ mem = mem_init
    /\ mpc = "L43"
    /\ resolved = [target |-> None, ret |-> None]

NextWeak ==
    \/ MainMakeA
    \/ MainMakeB
    \/ MainSetB
    \/ MainSetA
    \/ MainReturn
    \/ \E i \in Observers : \E x \in {"a", "b"} : Downgrade(i, x)
    \/ \E i, j \in Observers : ObserverCopy(i, j)
    \/ \E i \in Observers : ObserverDrop(i)
    \/ \E h \in Handles : \E i \in Observers : ResolveObserver(h, i)
    \/ \E h \in Handles : ResolveMember(h)
    \/ \E h \in Handles : HandleDrop(h)

(***************************************************************************)
(* ShallowCopy/main.cpp: the Shallow objects obj1 and obj2, each with its  *)
(* data pointer, and the heap cells `new int` hands out.  A cell records   *)
(* whether it is allocated or released, the int it holds, how many delete  *)
(* calls were made on it, and how many of these came from the by-value     *)
(* parameter of display_shallow.  `new` may hand out a released cell       *)
(* again.  Reading, writing or deleting a released cell is undefined: the  *)
(* run either goes on (the access lands in the released storage) or it is  *)
(* aborted.                                                                *)
(***************************************************************************)
ShallowNames == {"obj1", "obj2"}

Cells == 1..NumCells

objs_init == [o \in ShallowNames |-> [life |-> "none", data |-> NULL, from |-> "none"]]

cells_init ==
    [c \in Cells |-> [state |-> "free", val |-> NoValue, deletes |-> 0, byvalue |-> 0]]

Released(cs, c) == cs[c].state # "allocated"

\* Shallow::Shallow(int d), with c the cell new int returns
Shallow_new(st, o, c, d) ==
    [objs |-> [st.objs EXCEPT ![o] = [life |-> "live", data |-> c, from |-> "new"]],
     cells |-> [st.cells EXCEPT ![c].state = "allocated", ![c].val = d]]

Shallow_copy_deep(st, o, source) ==
    LET c == CHOOSE x \in Cells : x # st.objs[source].data
    IN [objs |-> [st.objs EXCEPT ![o] = [life |-> "live", data |-> c, from |-> source]],
        cells |-> [st.cells EXCEPT ![c].state = "allocated",
                                   ![c].val = st.cells[st.objs[source].data].val]]

\* Shallow::Shallow(const Shallow &source) : data(source.data)
Shallow_copy(st, o, source) ==
    [objs |-> [st.objs EXCEPT ![o] = [life |-> "live", data |-> st.objs[source].data,
                                      from |-> source]],
     cells |-> st.cells]

\* delete data;
delete(cs, c) == [cs EXCEPT ![c].state = "released", ![c].deletes = @ + 1]

\* Shallow::~Shallow()
Shallow_dtor(st, o) ==
    [objs |-> [st.objs EXCEPT ![o].life = "dead"],
     cells |-> delete(st.cells, st.objs[o].data)]

\* display_shallow(Shallow s): s is copy-constructed from the argument and
\* destroyed when the function returns
display_shallow(st, o) ==
    LET c == st.objs[o].data
    IN [objs |-> st.objs,
        cells |-> [delete(st.cells, c) EXCEPT ![c].byvalue = @ + 1]]

\* the run after a step that made an access to cell c
AfterAccess(c) ==
    /\ run' \in (IF Released(cells, c) THEN {"ok", "aborted"} ELSE {"ok"})

ShallowCtor(o, d) ==
    /\ run = "ok"
    /\ objs[o].life = "none"
    /\ \E c \in Cells :
         /\ Released(cells, c)
         /\ LET st == Shallow_new([objs |-> objs, cells |-> cells], o, c, d)
            IN objs' = st.objs /\ cells' = st.cells
    /\ UNCHANGED <<run, cout>>
    /\ UNCHANGED notShallow

ShallowCopy(o, source) ==
    /\ run = "ok"
    /\ objs[o].life = "none"
    /\ objs[source].life = "live"
    /\ LET st == Shallow_copy([objs |-> objs, cells |-> cells], o, source)
       IN objs' = st.objs /\ cells' = st.cells
    /\ UNCHANGED <<run, cout>>
    /\ UNCHANGED notShallow

\* obj.set_data_value(d): *data = d
ShallowSetData(o, d) ==
    /\ run = "ok"
    /\ objs[o].life = "live"
    /\ cells' = [cells EXCEPT ![objs[o].data].val = d]
    /\ AfterAccess(objs[o].data)
    /\ UNCHANGED <<objs, cout>>
    /\ UNCHANGED notShallow

ShallowDisplay(o) ==
    /\ run = "ok"
    /\ objs[o].life = "live"
    /\ cells[objs[o].data].deletes < MaxDeletes
    /\ LET st == display_shallow([objs |-> objs, cells |-> cells], o)
       IN objs' = st.objs /\ cells' = st.cells
    /\ cout' \in (IF Released(cells, objs[o].data) THEN Values \cup {NoValue}
                     ELSE {cells[objs[o].data].val})
    /\ AfterAccess(objs[o].data)
    /\ UNCHANGED notShallow

\* the object goes out of scope
ShallowDestroy(o) ==
    /\ run = "ok"
    /\ objs[o].life = "live"
    /\ cells[objs[o].data].deletes < MaxDeletes
    /\ LET st == Shallow_dtor([objs |-> objs, cells |-> cells], o)
       IN objs' = st.objs /\ cells' = st.cells
    /\ AfterAccess(objs[o].data)
    /\ UNCHANGED cout
    /\ UNCHANGED notShallow

ShallowIdle ==
    /\ objs = objs_init
    /\ cells = cells_init
    /\ run = "ok"
    /\ cout = NoValue

NextShallow ==
    \/ \E o \in ShallowNames : \E d \in Values : ShallowCtor(o, d)
    \/ \E o, source \in ShallowNames : ShallowCopy(o, source)
    \/ \E o \in ShallowNames : \E d \in Values : ShallowSetData(o, d)
    \/ \E o \in ShallowNames : ShallowDisplay(o)
    \/ \E o \in ShallowNames : ShallowDestroy(o)

ListIdle ==
    /\ head = List_new.head /\ tail = List_new.tail /\ items = List_new.items
    /\ pushed = <<>>
    /\ pc = "idle" /\ current = NULL /\ out = <<>> /\ shown = <<>>
    /\ destroyed = FALSE
    /\ deleted = [a \in Addresses |-> 0]

Init ==
    /\ s1 = stack_init("vector")
    /\ s2 = stack_init("list")
    /\ s3 = stack_init("deque")
    /\ status = [k \in Backings |-> "ok"]
    /\ hist = <<>>
    /\ ListIdle
    /\ WeakIdle
    /\ ShallowIdle

NextStack ==
    \/ \E v \in Values : StackPush(v)
    \/ StackPop
    \/ StackTop
    \/ \E v \in Values : StackTopAssign(v)
    \/ StackSize
    \/ StackDisplay
    \/ StackDrain

SpecStack == Init /\ [][NextStack]_vars

NextList ==
    \/ \E v \in Values : ListPush(v)
    \/ ListDisplayBegin
    \/ ListDisplayStep
    \/ ListDestroy

SpecList == Init /\ [][NextList]_vars

SpecWeak == Init /\ [][NextWeak]_vars

SpecShallow == Init /\ [][NextShallow]_vars

(***************************************************************************)
(* What the stacks hold and what the calls so far say, for the properties. *)
(***************************************************************************)
Stk(k) == CASE k = 1 -> s1 [] k = 2 -> s2 [] k = 3 -> s3

StackIds == 1..3

AllOk == \A b \in Backings : status[b] = "ok"

Reverse(q) == [i \in 1..Len(q) |-> q[Len(q) + 1 - i]]

vector_elems(c) == SubSeq(c.buf, 1, c.finish)

RECURSIVE list_walk(_, _)
list_walk(c, a) ==
    IF a = Sentinel THEN <<>>
    ELSE <<c.node[a].data>> \o list_walk(c, c.node[a].next)

list_elems(c) == list_walk(c, c.node[Sentinel].next)

deque_elems(c) ==
    [i \in 1..deque_size(c) |->
        c.map[((i - 1) \div DequeBuf) + 1][((i - 1) % DequeBuf) + 1]]

\* bottom-to-top content of a stack
elems(s) ==
    CASE s.kind = "vector" -> vector_elems(s.c)
      [] s.kind = "list" -> list_elems(s.c)
      [] s.kind = "deque" -> deque_elems(s.c)

NOps == Len(hist)

LastOp == IF NOps = 0 THEN "none" ELSE hist[NOps].op

LastRet(k) == hist[NOps].ret[k]

Stepped == hist' # hist

OpsIn(op, a, b) == Cardinality({x \in a..b : hist[x].op = op})

\* number of leading push calls of the history
LeadingPushes ==
    IF \A i \in 1..NOps : hist[i].op = "push" THEN NOps
    ELSE (CHOOSE i \in 1..NOps :
            /\ hist[i].op # "push"
            /\ \A j \in 1..(i - 1) : hist[j].op = "push") - 1

\* the push made by call i is still on the stack after call n: no later
\* prefix of calls holds more pops than pushes, and no drain follows it
Live(i, n) ==
    /\ hist[i].op = "push"
    /\ \A j \in (i + 1)..n :
         /\ hist[j].op # "drain"
         /\ OpsIn("pop", i + 1, j) <= OpsIn("push", i + 1, j)

\* the call that pushed the most recent element still present after call n,
\* 0 when there is none
TopIdx(n) ==
    IF \E i \in 1..n : Live(i, n)
    THEN CHOOSE i \in 1..n : Live(i, n) /\ \A j \in (i + 1)..n : ~Live(j, n)
    ELSE 0

NoAssign == \A i \in 1..NOps : hist[i].op # "assign"

RECURSIVE RemovedBy(_, _)
RemovedBy(k, n) ==
    IF n = 0 THEN 0
    ELSE RemovedBy(k, n - 1) +
         (CASE hist[n].op = "pop" -> 1
            [] hist[n].op = "drain" -> hist[n].ret[k]
            [] OTHER -> 0)

(***************************************************************************)
(* C1  LIFO law.  After N pushes onto the empty stack, the pops that       *)
(* follow (each the pair top(); pop(), made one by one or by display())    *)
(* yield the pushed values in exactly the reverse of the push order, on    *)
(* the vector, the list and the deque backing alike.                       *)
(***************************************************************************)
C1_LIFO ==
    AllOk =>
      LET n == LeadingPushes
      IN /\ (\A i \in (n + 1)..NOps : hist[i].op = "pop") =>
              \A k \in StackIds : \A j \in 1..(NOps - n) :
                  hist[n + j].ret[k] = hist[n + 1 - j].arg
         /\ (NOps = n + 1 /\ hist[NOps].op = "display") =>
              \A k \in StackIds :
                  LastRet(k) = [j \in 1..n |-> hist[n + 1 - j].arg]

C1_Witness ==
    /\ AllOk /\ NOps = 4
    /\ hist[1].op = "push" /\ hist[2].op = "push"
    /\ hist[3].op = "pop" /\ hist[4].op = "pop"
    /\ hist[1].arg # hist[2].arg
    /\ empty(s1) /\ empty(s2) /\ empty(s3)

(***************************************************************************)
(* C2  While only pushes and pops (and read-only calls) have been made and *)
(* the stack is non-empty, top() is the most recently pushed element not   *)
(* yet popped; a pop removes exactly that element and leaves on top the    *)
(* element that was on top just before the removed one was pushed.         *)
(***************************************************************************)
C2_TopIsLatestLive ==
    (AllOk /\ NoAssign) =>
      \A k \in StackIds :
        LET t == TopIdx(NOps)
        IN /\ empty(Stk(k)) <=> t = 0
           /\ t > 0 => top(Stk(k)) = hist[t].arg
           /\ LastOp = "pop" =>
                LET r == TopIdx(NOps - 1)
                    under == TopIdx(r - 1)
                IN /\ r > 0
                   /\ LastRet(k) = hist[r].arg
                   /\ under = 0 => empty(Stk(k))
                   /\ under > 0 => ~empty(Stk(k)) /\ top(Stk(k)) = hist[under].arg

C2_Witness ==
    /\ AllOk /\ NoAssign /\ LastOp = "pop"
    /\ OpsIn("push", 1, NOps) >= 3
    /\ ~empty(s1) /\ ~empty(s2) /\ ~empty(s3)
    /\ size(s3) = DequeBuf
    /\ LastRet(1) # top(s1)

C4_PeekReadOnly ==
    [][(Stepped /\ AllOk' /\ LastOp' \in {"top", "assign"}) =>
         \A k \in StackIds :
            /\ size(Stk(k))' = size(Stk(k))
            /\ elems(Stk(k))' = elems(Stk(k))]_vars

(***************************************************************************)
(* C4 amended: the call top() on a non-empty stack returns the top element *)
(* and changes nothing; what it returns is a reference, and assigning      *)
(* through it (s.top() = v) replaces the top element by v and leaves       *)
(* size() and every element below the top unchanged.                       *)
(***************************************************************************)
C4_TopReadsAssignWrites ==
    [][(Stepped /\ AllOk') =>
         \A k \in StackIds :
            /\ LastOp' = "top" =>
                 /\ Stk(k)' = Stk(k)
                 /\ LastRet(k)' = top(Stk(k))
            /\ LastOp' = "assign" =>
                 /\ size(Stk(k))' = size(Stk(k))
                 /\ top(Stk(k))' = hist'[NOps'].arg
                 /\ SubSeq(elems(Stk(k))', 1, size(Stk(k)) - 1)
                      = SubSeq(elems(Stk(k)), 1, size(Stk(k)) - 1)]_vars

C4_Witness ==
    /\ AllOk /\ NOps >= 4
    /\ hist[NOps].op = "top" /\ hist[NOps - 1].op = "assign"
    /\ hist[NOps - 2].op = "push" /\ hist[NOps - 3].op = "push"
    /\ hist[NOps - 1].arg # hist[NOps - 2].arg
    /\ LastRet(3) = hist[NOps - 1].arg
    /\ size(s1) = 2

(***************************************************************************)
(* C5  size() equals the number of pushes made so far minus the number of  *)
(* elements removed so far, for any interleaving of the two.               *)
(***************************************************************************)
C5_SizeIsPushesMinusRemovals ==
    AllOk =>
      \A k \in StackIds :
         size(Stk(k)) = OpsIn("push", 1, NOps) - RemovedBy(k, NOps)

C5_Witness ==
    /\ AllOk /\ NOps >= 4
    /\ hist[NOps].op = "push" /\ hist[NOps - 1].op = "pop"
    /\ hist[NOps - 2].op = "push" /\ hist[NOps - 3].op = "push"
    /\ size(s1) = 2 /\ size(s2) = 2 /\ size(s3) = 2

(***************************************************************************)
(* C6  A stack is Empty or NonEmpty, empty() holding exactly when          *)
(* size() = 0; every push leaves it NonEmpty; a pop of a NonEmpty stack    *)
(* leaves it Empty exactly when it removed the last remaining element.     *)
(***************************************************************************)
C6_EmptyNonEmpty ==
    /\ [](AllOk => \A k \in StackIds : empty(Stk(k)) <=> size(Stk(k)) = 0)
    /\ [][(Stepped /\ AllOk') =>
            \A k \in StackIds :
               /\ LastOp' = "push" => ~empty(Stk(k))'
               /\ LastOp' = "pop" =>
                    (empty(Stk(k))' <=> size(Stk(k)) = 1)]_vars

C6_Witness ==
    /\ AllOk /\ NOps >= 4
    /\ hist[NOps].op = "pop" /\ hist[NOps - 1].op = "pop"
    /\ hist[NOps - 2].op = "push" /\ hist[NOps - 3].op = "push"
    /\ empty(s1) /\ empty(s2) /\ empty(s3)
    /\ size(s1) = 0 /\ size(s2) = 0 /\ size(s3) = 0

C8_DisplayLeavesCallerStack ==
    [][(Stepped /\ LastOp' = "display") =>
         \A k \in StackIds :
            /\ Stk(k)' = Stk(k)
            /\ size(Stk(k))' = size(Stk(k))
            /\ elems(Stk(k))' = elems(Stk(k))
            /\ LastRet(k)' = Reverse(elems(Stk(k)))
            /\ empty(display_loop(Stk(k), <<>>).s)
            /\ status'[Stk(k).kind] = "ok"]_vars

C8_Witness ==
    /\ AllOk /\ LastOp = "display"
    /\ Len(LastRet(1)) = 3 /\ LastRet(1)[1] # LastRet(1)[2]
    /\ LastRet(2) = LastRet(1) /\ LastRet(3) = LastRet(1)
    /\ size(s1) = 3 /\ size(s2) = 3 /\ size(s3) = 3

(***************************************************************************)
(* The List seen from outside: the values appended so far (pushed), and    *)
(* the chain of items between head and tail.                               *)
(***************************************************************************)
\* number of items on the walk from a along `field` up to and including
\* target, 0 when the walk leaves the items or does not arrive within fuel
RECURSIVE NodesTo(_, _, _, _)
NodesTo(a, target, field, fuel) ==
    IF a \notin DOMAIN items THEN 0
    ELSE IF a = target THEN 1
    ELSE IF fuel = 0 THEN 0
    ELSE LET rest == NodesTo(items[a][field], target, field, fuel - 1)
         IN IF rest = 0 THEN 0 ELSE rest + 1

ForwardNodes == NodesTo(head, tail, "next", Cardinality(DOMAIN items))

BackwardNodes == NodesTo(tail, head, "prev", Cardinality(DOMAIN items))

IsPrefix(p, q) == Len(p) <= Len(q) /\ p = SubSeq(q, 1, Len(p))

(***************************************************************************)
(* C9  After appending v1..vn to an empty List, display() visits exactly   *)
(* v1..vn in insertion order, each once, and so does a second traversal    *)
(* started afterwards: every traversal runs to its end, has printed only a *)
(* prefix of the appended values while under way, and all of them once     *)
(* finished.                                                               *)
(***************************************************************************)
C9_TraversalVisitsAppended ==
    /\ pc \notin {"fault", "runaway"}
    /\ pc = "display" => IsPrefix(out, pushed)
    /\ \A i \in 1..Len(shown) : shown[i].out = shown[i].of

(***************************************************************************)
(* C10  After construction and after every push: an empty List has head    *)
(* and tail both null; in a non-empty one the walk from head along next    *)
(* arrives at tail having passed exactly size items (head and tail         *)
(* counted), and the walk from tail along prev arrives at head with the    *)
(* same count, size being the number of values appended.                   *)
(***************************************************************************)
C10_ChainInvariant ==
    /\ Cardinality(DOMAIN items) = Len(pushed)
    /\ Len(pushed) = 0 => head = NULL /\ tail = NULL
    /\ Len(pushed) > 0 =>
         /\ head \in DOMAIN items
         /\ tail \in DOMAIN items
         /\ ForwardNodes = Len(pushed)
         /\ BackwardNodes = Len(pushed)

C10_Witness ==
    /\ Len(pushed) = 3
    /\ head # tail
    /\ items[head].prev = tail
    /\ items[tail].next = Wild
    /\ ForwardNodes = 3 /\ BackwardNodes = 3

\* the items with successor a
Predecessors(a) == {b \in DOMAIN items : items[b].next = a}

\* a walk of at least one hop along next from a comes back to a
RECURSIVE ReachesAlongNext(_, _, _)
ReachesAlongNext(a, target, fuel) ==
    /\ a \in DOMAIN items
    /\ \/ items[a].next = target
       \/ fuel > 0 /\ ReachesAlongNext(items[a].next, target, fuel - 1)

OnCycle(a) == ReachesAlongNext(a, a, Cardinality(DOMAIN items))

\* the values met on the walk from head along next up to and including tail
RECURSIVE ChainFrom(_, _, _, _)
ChainFrom(its, a, last, fuel) ==
    IF a \notin DOMAIN its THEN <<>>
    ELSE IF a = last \/ fuel = 0 THEN <<its[a].data>>
    ELSE <<its[a].data>> \o ChainFrom(its, its[a].next, last, fuel - 1)

ChainValues == ChainFrom(items, head, tail, Cardinality(DOMAIN items))

(***************************************************************************)
(* C11  Single linear ownership: in every state each item is the successor *)
(* (next) of at most one item, head is the successor of no item, and the   *)
(* next links form no cycle.                                               *)
(***************************************************************************)
C11_SingleLinearOwnership ==
    /\ \A a \in DOMAIN items : Cardinality(Predecessors(a)) <= 1
    /\ head # NULL => Predecessors(head) = {}
    /\ \A a \in DOMAIN items : ~OnCycle(a)

(***************************************************************************)
(* C12  When a List is destroyed every item it allocated in push is        *)
(* released exactly once: none stays allocated and none is released twice. *)
(***************************************************************************)
C12_DestroyReleasesEveryItem ==
    /\ \A a \in Addresses : deleted[a] <= 1
    /\ destroyed => \A a \in DOMAIN items : deleted[a] = 1

(***************************************************************************)
(* C16  push(value) adds exactly one item, holding value, at the end and   *)
(* changes nothing else: on an empty List the new item becomes head and    *)
(* tail; on a non-empty one head stays, the earlier items keep their       *)
(* values and their order, the new item is linked after the old tail with  *)
(* its prev pointing to the old tail, and tail becomes the new item.       *)
(***************************************************************************)
C16_PushFrame ==
    [][pushed' # pushed =>
         /\ DOMAIN items \subseteq DOMAIN items'
         /\ Cardinality(DOMAIN items' \ DOMAIN items) = 1
         /\ LET item == CHOOSE a \in DOMAIN items' \ DOMAIN items : TRUE
            IN /\ items'[item].data = pushed'[Len(pushed')]
               /\ tail' = item
               /\ \A a \in DOMAIN items :
                    /\ items'[a].data = items[a].data
                    /\ items'[a].prev = items[a].prev
                    /\ a # tail => items'[a].next = items[a].next
               /\ head = NULL => head' = item
               /\ head # NULL =>
                    /\ head' = head
                    /\ items'[tail].next = item
                    /\ items'[item].prev = tail
         /\ ChainValues' = Append(ChainValues, pushed'[Len(pushed')])
         /\ ChainValues' = pushed'
         /\ UNCHANGED <<pc, current, out, shown, destroyed, deleted>>]_vars

C16_Witness ==
    /\ Len(pushed) = 3
    /\ pushed[1] # pushed[2]
    /\ head = 1 /\ tail = 3
    /\ items[3].prev = 2 /\ items[2].next = 3
    /\ items[3].next = 1
    /\ ChainValues = pushed

(***************************************************************************)
(* C17  A forward traversal always terminates, after exactly as many       *)
(* visits as values were appended: after every push the tail item's next   *)
(* is null, so the walk from head stops right after the tail and never     *)
(* follows a link past it.                                                 *)
(***************************************************************************)
C17_TraversalStopsAfterTail ==
    /\ tail # NULL => items[tail].next = NULL
    /\ Len(out) <= Len(pushed)
    /\ pc = "display" => current \in DOMAIN items \cup {NULL}

(***************************************************************************)
(* The strong and the weak references that exist, counted on the           *)
(* variables that hold them.                                               *)
(***************************************************************************)
NumOwners(o) ==
    Cardinality({x \in DOMAIN mem.sp : mem.sp[x] = o})
      + Cardinality({h \in Handles : mem.hd[h] = o})

NumWeak(o) ==
    (IF mem.a_ptr = o THEN 1 ELSE 0)
      + Cardinality({i \in Observers : mem.ob[i] = o})

Created(o) == mem.cb[o].obj # "none"

(***************************************************************************)
(* C13  resolve of a weak reference yields a handle to the same object     *)
(* while at least one strong owner of it exists, and absent once the last  *)
(* strong owner has released it; from then on the object has no owner      *)
(* again and every later resolve yields absent.                            *)
(***************************************************************************)
C13_ResolveFollowsOwners ==
    /\ [](\A o \in Objects :
            Created(o) =>
               weak_lock(mem, o) = (IF NumOwners(o) > 0 THEN o ELSE None))
    /\ [](\A h \in Handles :
            mem.hd[h] # None => mem.cb[mem.hd[h]].obj = "alive")
    /\ [][\A o \in Objects :
            /\ (resolved' # resolved /\ resolved'.target = o /\ NumOwners(o) > 0) =>
                  /\ resolved'.ret = o
                  /\ \E h \in Handles : mem.hd[h] = None /\ mem'.hd[h] = o
            /\ (Created(o) /\ NumOwners(o) = 0) =>
                  /\ NumOwners(o)' = 0
                  /\ mem'.cb[o].obj = "destroyed"
                  /\ weak_lock(mem', o) = None
                  /\ (resolved' # resolved /\ resolved'.target = o) =>
                        resolved'.ret = None]_vars

C13_Witness ==
    /\ resolved = [target |-> "A", ret |-> None]
    /\ mem.a_ptr = "A"
    /\ mem.cb["A"].obj = "destroyed"
    /\ mem.cb["B"].obj = "alive"
    /\ \E h \in Handles : mem.hd[h] = "B"
    /\ \E i \in Observers : mem.ob[i] = "A"

(***************************************************************************)
(* C14  A holds a strong reference to B and B a weak reference to A: once  *)
(* the external handles are released both A and B have been destroyed,     *)
(* each exactly once, neither kept alive by the mutual reference, and once *)
(* A is released a resolve of B's weak reference yields absent.            *)
(***************************************************************************)
C14_BothDestroyedOnce ==
    /\ \A o \in Objects : mem.cb[o].dtor <= 1
    /\ (mpc = "done" /\ \A h \in Handles : mem.hd[h] = None) =>
          /\ \A o \in Objects :
               /\ mem.cb[o].obj = "destroyed"
               /\ mem.cb[o].dtor = 1
               /\ mem.cb[o].use = 0
          /\ \A x \in DOMAIN mem.sp : mem.sp[x] = None
          /\ mem.a_ptr = None
    /\ mem.cb["A"].obj = "destroyed" => weak_lock(mem, "A") = None

C14_Witness ==
    /\ mpc = "done"
    /\ \A h \in Handles : mem.hd[h] = None
    /\ mem.cb["A"].dtor = 1 /\ mem.cb["B"].dtor = 1
    /\ mem.cb["A"].obj = "destroyed" /\ mem.cb["B"].obj = "destroyed"
    /\ resolved = [target |-> "A", ret |-> None]

(***************************************************************************)
(* C15  Weak references never extend lifetime: the strong count is the     *)
(* number of strong references whatever weak references exist; a step that *)
(* only creates, copies or drops weak references leaves every strong count *)
(* and every object's life unchanged; and an object is destroyed exactly   *)
(* when its strong count reaches zero, weak references to it or not.       *)
(***************************************************************************)
C15_WeakNeverExtendsLifetime ==
    /\ [](\A o \in Objects :
            /\ mem.cb[o].use = NumOwners(o)
            /\ mem.cb[o].weak = NumWeak(o)
            /\ mem.cb[o].obj = "alive" <=> mem.cb[o].use > 0
            /\ Created(o) /\ mem.cb[o].use = 0 => mem.cb[o].obj = "destroyed")
    /\ [][(mem'.sp = mem.sp /\ mem'.hd = mem.hd) =>
            \A o \in Objects :
               /\ mem'.cb[o].use = mem.cb[o].use
               /\ mem'.cb[o].obj = mem.cb[o].obj]_vars

C15_Witness ==
    /\ mem.cb["A"].obj = "destroyed"
    /\ mem.cb["A"].use = 0
    /\ mem.cb["A"].weak = NumObservers + 1
    /\ mem.a_ptr = "A"
    /\ mem.cb["B"].obj = "alive"

(***************************************************************************)
(* Shallow copies                                                          *)
(***************************************************************************)
\* the named objects whose data pointer is cell c
Sharers(c) == {o \in ShallowNames : objs[o].life # "none" /\ objs[o].data = c}

DeadSharers(c) == {o \in Sharers(c) : objs[o].life = "dead"}

\* a copy-constructed object and its source hold the same cell
CopySharesCell ==
    \A o \in ShallowNames :
       objs[o].from \in ShallowNames => objs[o].data = objs[objs[o].from].data

\* every destruction of an object whose data is c, named or the by-value
\* parameter of display_shallow, made one delete call on c
DeletesPerDestruction ==
    \A c \in Cells : cells[c].deletes = Cardinality(DeadSharers(c)) + cells[c].byvalue

\* a step that destroys a sharer of c leaves c released while the other
\* sharers still hold it, and when c was released already, the step
\* deletes it once more
DestroyStep ==
    \A c \in Cells :
       cells'[c].deletes # cells[c].deletes =>
          /\ cells'[c].state = "released"
          /\ cells'[c].deletes = cells[c].deletes + 1
          /\ \A o \in Sharers(c) : objs'[o].data = c
          /\ cells[c].state = "released" => cells'[c].deletes >= 2

\* main has returned: obj1 {100}, display_shallow(obj1), obj2 {obj1}, and
\* both went out of scope
MainReturned(c) ==
    /\ objs["obj1"] = [life |-> "dead", data |-> c, from |-> "new"]
    /\ objs["obj2"] = [life |-> "dead", data |-> c, from |-> "obj1"]
    /\ cells[c].byvalue = 1

\* C18: a Shallow object copy-constructed from another refers to the same
\* heap cell as its source; destroying one of the objects that share a cell
\* releases the cell while the others still refer to it, and destroying
\* another of them deletes the same cell again; in main the cell of obj1 is
\* deleted three times: by the parameter of display_shallow, by obj2 and by
\* obj1.
C18_ShallowCopySharesCell ==
    /\ [](CopySharesCell /\ DeletesPerDestruction)
    /\ [][DestroyStep]_vars
    /\ [](\A c \in Cells : MainReturned(c) => cells[c].deletes = 3)

\* main ran to its return without being aborted: the one cell was deleted
\* three times
C18_Witness ==
    \E c \in Cells :
       /\ MainReturned(c)
       /\ run = "ok"
       /\ cells[c].deletes = 3
       /\ cells[c].state = "released"
====
